---------------------------- MODULE Spec2Model ----------------------------
(***************************************************************************)
(* A model of the property-recommendation chat service:                    *)
(*   - src/apk.py            the Flask handlers /chat and /embed, the      *)
(*                           history store on MongoDB and generate_answer  *)
(*   - src/get_embeddings.py the embedding synchronisation job             *)
(*                                                                         *)
(* Five specifications share the variables:                                *)
(*   Spec          concurrent POST /chat requests against chat_history     *)
(*   SpecSeq       the same requests, one after the other                  *)
(*   SpecSamePair  concurrent requests for one (email, session_id)         *)
(*   SpecFetch     fetch_chat_history called with any limit                *)
(*   SpecEmbed     generate_and_save_embeddings on any small collection    *)
(*                                                                         *)
(* Bodies of /chat are JSON objects whose fields are strings or missing.   *)
(* Session ids are made of non-empty, non-numeric dot-separated parts.     *)
(***************************************************************************)
EXTENDS Integers, Sequences, FiniteSets, TLC

VARIABLES
    chat_history_collection, \* apk.py:19  the documents, in natural order
    req,                     \* the /chat requests in flight and finished
    now,                     \* the clock datetime.utcnow() reads
    fetched,                 \* the last direct fetch_chat_history call
    collection,              \* get_embeddings.py:12  the records, by _id
    job                      \* the generate_and_save_embeddings run

vars == <<chat_history_collection, req, now, fetched, collection, job>>

(***************************************************************************)
(* Bounds of the model.                                                    *)
(***************************************************************************)
\* concurrent or successive /chat requests
MaxReq == 2
\* longest stored session history SpecFetch starts from
MaxLen == 3
\* largest |limit| SpecFetch passes to fetch_chat_history
MaxLimit == 4
\* records in the collection of SpecEmbed
MaxDocs == 3

(***************************************************************************)
(* Values.                                                                 *)
(***************************************************************************)
\* Python's None, for a key the JSON body does not hold (dict.get)
None == "<None>"

\* Python truthiness of a str-or-None value: `not v` is true of None and ""
Truthy(v) == v \notin {None, ""}

Emails == {"a@b.com", "c@d.com"}

\* "s1.chat" holds a dot: MongoDB reads the update path history.s1.chat.chat
\* as nested fields, while dict.get("s1.chat") reads one literal key
SessionIds == {"s1", "s1.chat", "s2"}

Questions == {"Hello", "Any 2BHK in Indore under 50L?"}

\* what the completion model may answer
Responses == {"Hi, how can I assist you?"}

\* default of fetch_chat_history's limit
DefaultLimit == 10

RequestIds == 1..MaxReq

(***************************************************************************)
(* MongoDB documents of chat_history.  A document is                       *)
(*   [email |-> e, leaves |-> {[path |-> p, chat |-> <<entries>>], ...}]   *)
(* where each leaf is an array-valued field at dotted path p; the objects  *)
(* on the way to a leaf are implicit.  Only $push with upsert writes the   *)
(* collection, so every field below `history` is an object or an array of  *)
(* entries.                                                                *)
(***************************************************************************)

\* the fields a "."-separated string names, as MongoDB splits an update path
SplitDots(s) ==
    CASE s = "s1"      -> <<"s1">>
      [] s = "s1.chat" -> <<"s1", "chat">>
      [] s = "s2"      -> <<"s2">>

\* f"history.{session_id}.chat"
UpdatePath(session_id) == <<"history">> \o SplitDots(session_id) \o <<"chat">>

IsPrefix(p, q) == Len(p) <= Len(q) /\ SubSeq(q, 1, Len(p)) = p

IsProperPrefix(p, q) == Len(p) < Len(q) /\ IsPrefix(p, q)

\* what sits at path p of a document: an array, an object or nothing
Lookup(doc, p) ==
    IF \E l \in doc.leaves : l.path = p
      THEN [kind |-> "array", value |-> (CHOOSE l \in doc.leaves : l.path = p).chat]
    ELSE IF \E l \in doc.leaves : IsProperPrefix(p, l.path)
      THEN [kind |-> "object", value |-> <<>>]
    ELSE [kind |-> "missing", value |-> <<>>]

\* positions of the documents matching {"email": email}
Matching(coll, email) == {i \in 1..Len(coll) : coll[i].email = email}

Min(S) == CHOOSE x \in S : \A y \in S : x <= y

\* collection.find_one({"email": email}): the first match in natural order
FindOne(coll, email) ==
    IF Matching(coll, email) = {}
      THEN [found |-> FALSE, doc |-> [email |-> email, leaves |-> {}]]
      ELSE [found |-> TRUE, doc |-> coll[Min(Matching(coll, email))]]

\* {"req": user_content, "res": ai_content, "timestamp": utcnow()}
Message(user_content, ai_content, t) ==
    [req |-> user_content, res |-> ai_content, timestamp |-> t]

\* whether {"$push": {path: message}} applies to the document: it fails when
\* the path runs through an array (a field of an array element cannot be
\* created by name) or ends at an object (the field must be an array)
PushViable(doc, p) ==
    /\ ~ \E l \in doc.leaves : IsProperPrefix(l.path, p)
    /\ ~ \E l \in doc.leaves : IsProperPrefix(p, l.path)

\* the document after {"$push": {path: message}}
Push(doc, p, message) ==
    IF \E l \in doc.leaves : l.path = p
      THEN [doc EXCEPT !.leaves =
              {IF l.path = p THEN [l EXCEPT !.chat = Append(l.chat, message)] ELSE l
                 : l \in doc.leaves}]
      ELSE [doc EXCEPT !.leaves = doc.leaves \cup {[path |-> p, chat |-> <<message>>]}]

(***************************************************************************)
(* Python list slicing seq[start:] (0-based start, negative from the end). *)
(***************************************************************************)
SliceFrom(seq, start) ==
    LET n == Len(seq)
        s == IF start < 0 THEN (IF n + start < 0 THEN 0 ELSE n + start)
                          ELSE (IF start > n THEN n ELSE start)
    IN SubSeq(seq, s + 1, n)

\* fetch_chat_history on the collection: the value returned, or the
\* exception raised when the `chat` found is a dict (a dict takes no slice):
\* session_chat[-limit:]
fetch_chat_history(coll, email, session_id, limit) ==
    LET r == FindOne(coll, email)
        \* record.get("history", {}).get(session_id, {}).get("chat", [])
        \* session_id is one literal key: no stored key holds a dot
        c == Lookup(r.doc, <<"history", session_id, "chat">>)
    IN IF ~r.found \/ c.kind = "missing" THEN [raised |-> FALSE, value |-> <<>>]
       ELSE IF c.kind = "object" THEN [raised |-> TRUE, value |-> <<>>]
       ELSE [raised |-> FALSE, value |-> SliceFrom(c.value, 0 - limit)]

(***************************************************************************)
(* POST /chat: chat() and generate_answer(), one action per blocking call. *)
(* A request is                                                            *)
(*   pc      idle | validate | fetch | retrieve | complete | save | upsert | done     *)
(*   session_id, email, question   the body's fields (None when missing)   *)
(*   memory_context, prompt, assistant_response, message   the locals      *)
(*   status, body                  the reply                               *)
(*   failed                        the call that raised, "" when none did  *)
(* Once the handler has returned, its locals are gone and the reply stays. *)
(***************************************************************************)
NoMessage == Message("", "", 0)

NoPrompt == [memory |-> <<>>, property |-> <<>>, question |-> ""]

IdleRequest ==
    [pc |-> "idle", session_id |-> None, email |-> None, question |-> None,
     memory_context |-> <<>>, prompt |-> NoPrompt, assistant_response |-> "",
     message |-> NoMessage, status |-> 0, body |-> [key |-> "", text |-> ""],
     failed |-> ""]

\* the calls to MongoDB and OpenAI: any of them may raise
UpstreamCalls == {"find_one", "get_query_results", "completions.create", "update_one"}

\* the handler returns: its locals are gone, the reply stays
Reply(q, status, key, text, failed) ==
    [IdleRequest EXCEPT !.pc = "done", !.status = status,
                        !.body = [key |-> key, text |-> text], !.failed = failed]

\* an exception leaves the handler: Flask answers 500
Raise(q, failed) == Reply(q, 500, "", "", failed)

\* "\n".join([f"User: {msg['req']}\nAssistant: {msg['res']}" for msg in chat_history])
RECURSIVE MemoryContext(_)
MemoryContext(chat_history) ==
    IF chat_history = <<>> THEN <<>>
    ELSE <<[who |-> "User", text |-> Head(chat_history).req],
           [who |-> "Assistant", text |-> Head(chat_history).res]>>
         \o MemoryContext(Tail(chat_history))

\* what get_query_results returns: the matches of the vector search
PropertyContext == <<[_id |-> 1, text |-> "2BHK flat, Vijay Nagar, Indore"]>>

\* a validation that forgets the question
InvalidForgetsQuestion(session_id, email, question) ==
    ~Truthy(session_id) \/ ~Truthy(email)

\* apk.py:168  if not session_id or not email or not question
Invalid(session_id, email, question) ==
    ~Truthy(session_id) \/ ~Truthy(email) \/ ~Truthy(question)

\* chat(), lines 162-165: data = request.json and the three data.get calls.
\* Nothing shared is touched before line 168, so requests are numbered in
\* the order they pass validation.
Receive(r, session_id, email, question) ==
    /\ req[r].pc = "idle"
    /\ IF r = 1 THEN TRUE ELSE req[r - 1].pc \notin {"idle", "validate"}
    /\ req' = [req EXCEPT ![r] =
         [req[r] EXCEPT !.pc = "validate", !.session_id = session_id,
                        !.email = email, !.question = question]]
    /\ UNCHANGED <<chat_history_collection, now, fetched, collection, job>>

\* chat(), lines 168-172: reject with 400, or enter generate_answer
Validate(r) ==
    /\ req[r].pc = "validate"
    /\ req' = [req EXCEPT ![r] =
         IF Invalid(req[r].session_id, req[r].email, req[r].question)
           THEN Reply(req[r], 400, "error",
                      "session_id, email, and question are required fields.", "")
           ELSE [req[r] EXCEPT !.pc = "fetch"]]
    /\ UNCHANGED <<chat_history_collection, now, fetched, collection, job>>

\* generate_answer, lines 103-104: fetch_chat_history and memory_context
FetchHistory(r) ==
    /\ req[r].pc = "fetch"
    /\ \E ok \in BOOLEAN :
         LET h == fetch_chat_history(chat_history_collection, req[r].email,
                                     req[r].session_id, DefaultLimit)
         IN req' = [req EXCEPT ![r] =
              IF ~ok THEN Raise(req[r], "find_one")
              ELSE IF h.raised THEN Raise(req[r], "TypeError")
              ELSE [req[r] EXCEPT !.pc = "retrieve",
                                  !.memory_context = MemoryContext(h.value)]]
    /\ UNCHANGED <<chat_history_collection, now, fetched, collection, job>>

\* generate_answer, lines 107-133: get_query_results and the prompt
Retrieve(r) ==
    /\ req[r].pc = "retrieve"
    /\ \E ok \in BOOLEAN :
         req' = [req EXCEPT ![r] =
              IF ~ok THEN Raise(req[r], "get_query_results")
              ELSE [req[r] EXCEPT !.pc = "complete",
                                  !.prompt = [memory |-> req[r].memory_context,
                                              property |-> PropertyContext,
                                              question |-> req[r].question]]]
    /\ UNCHANGED <<chat_history_collection, now, fetched, collection, job>>

\* a handler that stores the exchange before it has the completion: when
\* the call raises, the entry stays
CompleteSavesFirst(r) ==
    /\ req[r].pc = "complete"
    /\ \E ok \in BOOLEAN, answer \in Responses :
         /\ req' = [req EXCEPT ![r] =
              IF ~ok THEN Raise(req[r], "completions.create")
              ELSE [req[r] EXCEPT !.pc = "save", !.assistant_response = answer]]
         /\ chat_history_collection' =
              IF ok THEN chat_history_collection
              ELSE Append(chat_history_collection,
                          Push([email |-> req[r].email, leaves |-> {}],
                               UpdatePath(req[r].session_id),
                               Message(req[r].question, "", now)))
    /\ UNCHANGED <<now, fetched, collection, job>>

\* generate_answer, lines 136-143: the completion call
Complete(r) ==
    /\ req[r].pc = "complete"
    /\ \E ok \in BOOLEAN, answer \in Responses :
         req' = [req EXCEPT ![r] =
              IF ~ok THEN Raise(req[r], "completions.create")
              ELSE [req[r] EXCEPT !.pc = "save", !.assistant_response = answer]]
    /\ UNCHANGED <<chat_history_collection, now, fetched, collection, job>>

\* save_message_to_mongo up to the query phase of update_one(upsert=True):
\* with a match, the $push is applied to the first matching document in one
\* step; without one, the insert follows as a step of its own (the collection
\* has no unique index on email, so MongoDB does not serialise upserts)
SaveQuery(r) ==
    /\ req[r].pc = "save"
    /\ now' = now + 1
    /\ \E ok \in BOOLEAN :
         LET message == Message(req[r].question, req[r].assistant_response, now)
             path == UpdatePath(req[r].session_id)
             m == Matching(chat_history_collection, req[r].email)
             i == Min(m)
         IN IF ~ok
              THEN /\ req' = [req EXCEPT ![r] = Raise(req[r], "update_one")]
                   /\ UNCHANGED chat_history_collection
            ELSE IF m = {}
              THEN /\ req' = [req EXCEPT ![r] =
                                [req[r] EXCEPT !.pc = "upsert", !.message = message]]
                   /\ UNCHANGED chat_history_collection
            ELSE IF ~PushViable(chat_history_collection[i], path)
              THEN /\ req' = [req EXCEPT ![r] = Raise(req[r], "update_one")]
                   /\ UNCHANGED chat_history_collection
            ELSE /\ chat_history_collection' =
                      [chat_history_collection EXCEPT
                         ![i] = Push(chat_history_collection[i], path, message)]
                 /\ req' = [req EXCEPT ![r] =
                      Reply(req[r], 200, "response", req[r].assistant_response, "")]
    /\ UNCHANGED <<fetched, collection, job>>

\* the insert phase of the upsert, then lines 148 and 173: the reply
SaveInsert(r) ==
    /\ req[r].pc = "upsert"
    /\ chat_history_collection' =
         Append(chat_history_collection,
                Push([email |-> req[r].email, leaves |-> {}],
                     UpdatePath(req[r].session_id), req[r].message))
    /\ req' = [req EXCEPT ![r] =
         Reply(req[r], 200, "response", req[r].assistant_response, "")]
    /\ UNCHANGED <<now, fetched, collection, job>>

InitChat ==
    /\ chat_history_collection = <<>>
    /\ req = [r \in RequestIds |-> IdleRequest]
    /\ now = 1

\* the bodies a client may send: each field present, empty or missing
Received(r) ==
    \E session_id \in SessionIds \cup {None, ""},
       email \in Emails \cup {None, ""},
       question \in Questions \cup {None, ""} :
      Receive(r, session_id, email, question)

Handle(r) ==
    \/ Validate(r)
    \/ FetchHistory(r)
    \/ Retrieve(r)
    \/ Complete(r)
    \/ SaveQuery(r)
    \/ SaveInsert(r)

NextChat ==
    \/ \E r \in RequestIds : Received(r)
    \/ \E r \in RequestIds : Handle(r)

\* generate_and_save_embeddings before it runs (its fields are described below)
IdleJob ==
    [pc |-> "start", df |-> [columns |-> {}, rows |-> <<>>], applied |-> <<>>,
     written |-> 0, generated |-> 0, update_ones |-> 0, result |-> "", failed |-> ""]

(***************************************************************************)
(* fetch_chat_history called directly, with any limit, on any collection   *)
(* that holds at most one document whose one session has up to MaxLen      *)
(* entries (what MaxLen successive requests of a session leave behind).    *)
(***************************************************************************)
Limits == 0..MaxLimit

\* the histories of n entries, stamped 1..n in the order they were pushed
HistoriesOfLen(n) ==
    {[i \in 1..n |-> Message(qs[i], CHOOSE a \in Responses : TRUE, i)] :
       qs \in [1..n -> Questions]}

StoredCollections ==
    {<<>>} \cup
    {<<[email |-> e, leaves |-> {[path |-> UpdatePath(s), chat |-> h]}]>> :
       e \in Emails, s \in SessionIds,
       h \in UNION {HistoriesOfLen(n) : n \in 1..MaxLen}}

\* before any direct call
NoFetch ==
    [called |-> FALSE, email |-> None, session_id |-> None, limit |-> 0,
     result |-> [raised |-> FALSE, value |-> <<>>]]

FetchCall(email, session_id, limit) ==
    /\ fetched' = [called |-> TRUE, email |-> email, session_id |-> session_id,
                   limit |-> limit,
                   result |-> fetch_chat_history(chat_history_collection, email,
                                                 session_id, limit)]
    /\ UNCHANGED <<chat_history_collection, req, now, collection, job>>

InitFetch ==
    /\ chat_history_collection \in StoredCollections
    /\ req = [r \in RequestIds |-> IdleRequest]
    /\ now = 1
    /\ fetched = NoFetch
    /\ collection = <<>>
    /\ job = IdleJob

NextFetch ==
    \E email \in Emails, session_id \in SessionIds, limit \in Limits :
      FetchCall(email, session_id, limit)

SpecFetch == InitFetch /\ [][NextFetch]_vars

(***************************************************************************)
(* generate_and_save_embeddings (get_embeddings.py).  A record of the      *)
(* collection is [_id, text, has_embedding, embedding]: has_embedding says *)
(* whether the document holds the key at all, and embedding is Null for a  *)
(* null.  The job is                                                       *)
(*   pc        start | apply | write | done | raised                       *)
(*   df        the DataFrame's rows, one per document loaded               *)
(*   applied   the values df.apply has computed so far, row by row         *)
(*   written   the rows the update loop has gone through                   *)
(*   generated, update_ones   the calls made to OpenAI and to update_one   *)
(*   result    the string returned; failed  the call that raised           *)
(***************************************************************************)
\* embedding cells are tuples: a vector, a null or pandas' filler
\* Python's None in an `embedding` cell: the document holds a null
Null == <<"None">>

\* pandas' filler for a cell whose document lacks the column's key
NaN == <<"NaN">>

\* the vector a record carried before the run
OldEmbedding(id) == <<"stored-vector", <<id>>>>

\* response["data"][0]["embedding"] for the text: a function of the text
generate_embedding(text) == <<"ada-002", text>>

Texts == [i \in 1..(MaxDocs + 1) |-> IF i % 2 = 1 THEN "flat in Indore" ELSE "villa in Bhopal"]

EmbeddingStates == {"absent", "null", "present"}

RecordOf(id, st) ==
    [_id |-> id, text |-> Texts[id], has_embedding |-> st # "absent",
     embedding |-> IF st = "present" THEN OldEmbedding(id) ELSE Null]

\* pd.DataFrame(list(collection.find())): the columns are the union of the
\* documents' keys, and a document without a key gets NaN in its column
load_data(coll) ==
    [columns |-> {"_id", "text"} \cup
                 (IF \E i \in DOMAIN coll : coll[i].has_embedding
                    THEN {"embedding"} ELSE {}),
     rows |-> [i \in DOMAIN coll |->
                [_id |-> coll[i]._id, text |-> coll[i].text,
                 embedding |-> IF coll[i].has_embedding THEN coll[i].embedding ELSE NaN]]]

\* ' '.join(map(str, row.values)): the row's cells, in column order
RowText(row) == <<row._id, row.text, row.embedding>>

\* a lambda that embeds every row again
NeedsEmbeddingAlways(row) == TRUE

\* the lambda of df.apply tests `row['embedding'] is None`
NeedsEmbedding(row) == row.embedding = Null

\* lines 28-32: load the collection; an empty DataFrame ends the job
Load ==
    /\ job.pc = "start"
    /\ LET df == load_data(collection)
       IN job' = IF df.rows = <<>>
                   THEN [job EXCEPT !.pc = "done", !.df = df,
                                    !.result = "No documents found in the collection."]
                   ELSE [job EXCEPT !.pc = "apply", !.df = df]
    /\ UNCHANGED <<chat_history_collection, req, now, fetched, collection>>

\* df.apply has a row left to compute
CanApply(j) == j.pc = "apply" /\ Len(j.applied) < Len(j.df.rows)

\* lines 35-39: the lambda on the next row.  row['embedding'] raises KeyError
\* when no document had the key; generate_embedding may raise.  The column
\* is assigned once every row is computed, and the update loop starts then.
ApplyRow ==
    /\ CanApply(job)
    /\ LET row == job.df.rows[Len(job.applied) + 1]
           last == Len(job.applied) + 1 = Len(job.df.rows)
       IN IF "embedding" \notin job.df.columns
            THEN job' = [job EXCEPT !.pc = "raised", !.failed = "KeyError"]
          ELSE IF NeedsEmbedding(row)
            THEN \E ok \in BOOLEAN :
                   job' = IF ok
                     THEN [job EXCEPT !.applied = Append(@, generate_embedding(RowText(row))),
                                      !.generated = @ + 1]
                     ELSE [job EXCEPT !.pc = "raised", !.generated = @ + 1,
                                      !.failed = "generate_embedding"]
          ELSE job' = [job EXCEPT !.applied = Append(@, row.embedding)]
    /\ UNCHANGED <<chat_history_collection, req, now, fetched, collection>>

\* a loop that writes each row as soon as it is computed
CanWriteEarly(j) ==
    /\ j.pc = "apply"
    /\ j.written < Len(j.applied)

\* the for loop of line 42 runs once df.apply has returned
CanWrite(j) ==
    /\ j.pc = "apply"
    /\ Len(j.applied) = Len(j.df.rows)
    /\ j.written < Len(j.df.rows)

\* line 43: update_one({'_id': row['_id']}, {"$set": {"embedding": ...}})
\* for the next row, whatever its embedding was; the call may raise
WriteRow ==
    /\ CanWrite(job)
    /\ LET k == job.written + 1
           id == job.df.rows[k]._id
       IN \E ok \in BOOLEAN :
            IF ok
              THEN /\ collection' = [collection EXCEPT
                                       ![id] = [@ EXCEPT !.has_embedding = TRUE,
                                                         !.embedding = job.applied[k]]]
                   /\ job' = [job EXCEPT !.written = k, !.update_ones = @ + 1]
              ELSE /\ job' = [job EXCEPT !.pc = "raised", !.update_ones = @ + 1,
                                         !.failed = "update_one"]
                   /\ UNCHANGED collection
    /\ UNCHANGED <<chat_history_collection, req, now, fetched>>

\* line 45: every row has been written
Finish ==
    /\ job.pc = "apply"
    /\ Len(job.applied) = Len(job.df.rows)
    /\ job.written = Len(job.df.rows)
    /\ job' = [job EXCEPT !.pc = "done",
                 !.result = "Embeddings generated and saved successfully where needed."]
    /\ UNCHANGED <<chat_history_collection, req, now, fetched, collection>>

InitEmbed ==
    /\ chat_history_collection = <<>>
    /\ req = [r \in RequestIds |-> IdleRequest]
    /\ now = 1
    /\ fetched = NoFetch
    /\ \E n \in 0..MaxDocs :
         collection \in {[i \in 1..n |-> RecordOf(i, st[i])] :
                           st \in [1..n -> EmbeddingStates]}
    /\ job = IdleJob

NextEmbed ==
    \/ Load
    \/ ApplyRow
    \/ WriteRow
    \/ Finish

SpecEmbed == InitEmbed /\ [][NextEmbed]_vars

Init ==
    /\ InitChat
    /\ fetched = NoFetch
    /\ collection = <<>>
    /\ job = IdleJob

Next == NextChat

\* any interleaving of /chat requests
Spec == Init /\ [][Next]_vars

\* no request is being handled
NoneInFlight == \A r \in RequestIds : req[r].pc \in {"idle", "done"}

\* one request after the other: a request arrives once the last has returned
NextSeq ==
    \/ \E r \in RequestIds : NoneInFlight /\ Received(r)
    \/ \E r \in RequestIds : Handle(r)

SpecSeq == Init /\ [][NextSeq]_vars

\* the (email, session_id) all requests of SpecSamePair are for
SameEmail == "a@b.com"

SameSession == "s1"

\* any interleaving of requests for one (email, session_id)
NextSamePair ==
    \/ \E r \in RequestIds, question \in Questions :
         Receive(r, SameSession, SameEmail, question)
    \/ \E r \in RequestIds : Handle(r)

SpecSamePair == Init /\ [][NextSamePair]_vars

(***************************************************************************)
(* The claims.  Their vocabulary is defined here, apart from the model.    *)
(***************************************************************************)
Missing(v) == v = None \/ v = ""

AnyMissing(q) == Missing(q.session_id) \/ Missing(q.email) \/ Missing(q.question)

\* the step is request r's, and r's handler returns in it
Finishes(r) == req[r].pc \notin {"idle", "done"} /\ req'[r].pc = "done"

\* the session history save_message_to_mongo appends to: the array at
\* history.<session_id>.chat of the document the filter selects
StoredHistory(coll, email, session_id) ==
    LET c == Lookup(FindOne(coll, email).doc, UpdatePath(session_id))
    IN IF c.kind = "array" THEN c.value ELSE <<>>

\* the last min(n, Len(seq)) elements of seq
LastN(seq, n) ==
    IF n >= Len(seq) THEN seq ELSE SubSeq(seq, Len(seq) - n + 1, Len(seq))

\* history h grew by exactly the exchange of request q
AppendedExchange(h, hAfter, q) ==
    /\ Len(hAfter) = Len(h) + 1
    /\ SubSeq(hAfter, 1, Len(h)) = h
    /\ hAfter[Len(hAfter)].req = q.question
    /\ hAfter[Len(hAfter)].res = q.assistant_response

\* C1: a /chat request with the three fields present and non-empty, none of
\* whose upstream calls raises, is answered 200 with the assistant text in
\* `response`, and the history of its (email, session_id) is its prior
\* history with the one entry {req: question, res: response} appended.
C1_ValidChatAppendsOne ==
    [][\A r \in RequestIds :
         (Finishes(r) /\ ~AnyMissing(req[r]) /\ req'[r].failed \notin UpstreamCalls)
         => /\ req'[r].status = 200
            /\ req'[r].body = [key |-> "response", text |-> req[r].assistant_response]
            /\ AppendedExchange(
                 StoredHistory(chat_history_collection, req[r].email, req[r].session_id),
                 StoredHistory(chat_history_collection', req[r].email, req[r].session_id),
                 req[r])]_vars

SessionChat(coll, email, session_id) ==
    LET c == Lookup(FindOne(coll, email).doc, <<"history", session_id, "chat">>)
    IN IF c.kind = "array" THEN c.value ELSE <<>>

\* C3: for every email, session_id and limit (0 included, histories shorter
\* or longer than limit), fetch_chat_history returns at most `limit`
\* entries, and they are the most recent ones of the stored history in
\* their stored order.
C3_FetchAtMostLimit ==
    (fetched.called /\ ~fetched.result.raised)
    => /\ Len(fetched.result.value) <= fetched.limit
       /\ fetched.result.value =
            LastN(SessionChat(chat_history_collection, fetched.email,
                              fetched.session_id), fetched.limit)

\* every record loaded carried an embedding
AllHadEmbedding(df) ==
    /\ df.rows # <<>>
    /\ \A i \in DOMAIN df.rows : df.rows[i].embedding \notin {Null, NaN}

\* the collection is what the job loaded
AsLoaded(coll, df) ==
    /\ DOMAIN coll = DOMAIN df.rows
    /\ \A i \in DOMAIN coll :
         /\ coll[i]._id = df.rows[i]._id
         /\ coll[i].text = df.rows[i].text
         /\ IF coll[i].has_embedding
              THEN coll[i].embedding = df.rows[i].embedding
              ELSE df.rows[i].embedding = NaN

SuccessMessage == "Embeddings generated and saved successfully where needed."

\* C4 as stated: on a non-empty collection whose records all have an
\* embedding the job issues no update_one, never calls the generator, and
\* reports success.
C4_NoUpdateIssued ==
    (job.pc = "done" /\ AllHadEmbedding(job.df))
    => /\ job.update_ones = 0
       /\ job.generated = 0
       /\ job.result = SuccessMessage

\* C4 as amended: on such a collection the job never calls the generator
\* and changes no record, though it issues one update_one per record (each
\* sets `embedding` to the value the record holds); it reports success
\* unless an update_one raises.
C4_NoRecordChanges ==
    (job.pc # "start" /\ AllHadEmbedding(job.df))
    => /\ job.generated = 0
       /\ AsLoaded(collection, job.df)
       /\ job.update_ones <= Len(job.df.rows)
       /\ job.pc = "done" => /\ job.update_ones = Len(job.df.rows)
                             /\ job.result = SuccessMessage
       /\ job.pc = "raised" => job.failed = "update_one"

\* C4's case: the job has finished on two or more records that all had one
C4_Witness ==
    /\ job.pc = "done"
    /\ AllHadEmbedding(job.df)
    /\ Len(job.df.rows) >= 2
    /\ job.update_ones = Len(job.df.rows)

\* C5: after the job completes successfully on any collection (embeddings
\* absent, null or present), every record that had none carries an
\* embedding generated from its field values, and every record that had
\* one carries the same value.
C5_EveryMissingFilled ==
    (job.pc = "done" /\ job.result = SuccessMessage)
    => \A i \in DOMAIN collection :
         /\ collection[i].has_embedding
         /\ IF job.df.rows[i].embedding \in {Null, NaN}
              THEN collection[i].embedding = generate_embedding(RowText(job.df.rows[i]))
              ELSE collection[i].embedding = job.df.rows[i].embedding

\* the req and res texts of the entries, as the lines of the memory context
HoldsExchanges(memory, entries) ==
    /\ Len(memory) = 2 * Len(entries)
    /\ \A i \in 1..Len(entries) :
         /\ memory[2 * i - 1].text = entries[i].req
         /\ memory[2 * i].text = entries[i].res

\* C6: in a sequential run of requests on one (email, session_id), the
\* prompt of a request holds the req and res of the last min(10, n) entries
\* the n earlier requests of the session appended, in order, and the
\* exchange is appended before the reply is returned.
C6_PromptHoldsHistory ==
    [][\A r \in RequestIds :
         /\ (req[r].pc = "retrieve" /\ req'[r].pc = "complete")
            => HoldsExchanges(req'[r].prompt.memory,
                 LastN(StoredHistory(chat_history_collection, req[r].email,
                                     req[r].session_id), DefaultLimit))
         /\ (Finishes(r) /\ req'[r].status = 200)
            => AppendedExchange(
                 StoredHistory(chat_history_collection, req[r].email, req[r].session_id),
                 StoredHistory(chat_history_collection', req[r].email, req[r].session_id),
                 req[r])]_vars

Pairs == Emails \X SessionIds

\* C7: under any interleaving, a request for one (email, session_id) never
\* adds, changes or removes an entry of another pair's history, and what
\* another pair's request reads is not affected by it.
C7_PairsIndependent ==
    [][\A r \in RequestIds :
         (req'[r] # req[r] /\ req[r].pc \notin {"idle", "validate"})
         => \A p \in Pairs \ {<<req[r].email, req[r].session_id>>} :
              /\ StoredHistory(chat_history_collection', p[1], p[2])
                   = StoredHistory(chat_history_collection, p[1], p[2])
              /\ fetch_chat_history(chat_history_collection', p[1], p[2], DefaultLimit)
                   = fetch_chat_history(chat_history_collection, p[1], p[2], DefaultLimit)]_vars

\* C8: under any interleaving of requests for the same (email, session_id),
\* the session history only grows by append, stored entries never change,
\* and every request that completes contributes exactly one entry.
C8_NoAppendLost ==
    [][LET h == StoredHistory(chat_history_collection, SameEmail, SameSession)
           hAfter == StoredHistory(chat_history_collection', SameEmail, SameSession)
       IN /\ IsPrefix(h, hAfter)
          /\ \A r \in RequestIds :
               (Finishes(r) /\ req'[r].status = 200) => AppendedExchange(h, hAfter, req[r])
          /\ hAfter # h => \E r \in RequestIds : Finishes(r) /\ req'[r].status = 200]_vars

\* C9: when embedding generation fails for a record, the job aborts with
\* an error and the collection is as it was: every embedding is computed
\* before the first write, so the aborted run has updated no record.
C9_NoPartialCommit ==
    /\ job.update_ones > 0 => Len(job.applied) = Len(job.df.rows)
    /\ job.failed = "generate_embedding"
         => /\ job.pc = "raised"
            /\ job.result = ""
            /\ job.update_ones = 0
            /\ AsLoaded(collection, job.df)

\* C9's case: generation failed for a later record, after an embedding had
\* been generated for an earlier one
C9_Witness ==
    /\ job.failed = "generate_embedding"
    /\ job.generated >= 2
    /\ Len(job.applied) >= 1

\* C10: when the retrieval query or the completion call fails, the failure
\* reaches the caller (500) and the request has written no history entry:
\* the store changes only in the step that ends a request with 200, after
\* its completion was obtained.
C10_FailureWritesNothing ==
    [][/\ \A r \in RequestIds :
            (Finishes(r) /\ req'[r].failed \in {"get_query_results", "completions.create"})
            => /\ req'[r].status = 500
               /\ req'[r].body.key # "response"
               /\ chat_history_collection' = chat_history_collection
       /\ chat_history_collection' # chat_history_collection
            => \E r \in RequestIds :
                 /\ Finishes(r)
                 /\ req'[r].status = 200
                 /\ req[r].assistant_response \in Responses]_vars

\* C10's case: a request has failed in its completion call while the store
\* holds the exchange of a request that went through
C10_Witness ==
    /\ chat_history_collection # <<>>
    /\ \E r \in RequestIds :
         /\ req[r].pc = "done"
         /\ req[r].status = 500
         /\ req[r].failed = "completions.create"

============================================================================
